---- MODULE Spec2Model ----
(***************************************************************************)
(* Model of parser/document_parser.py (DocumentParser) and of the upload   *)
(* handler of app.py that calls it.                                        *)
(*                                                                         *)
(* A Python str is a sequence of characters.  A character is written as a  *)
(* one-token string; the characters that are not ASCII letters or digits   *)
(* are spelled out:                                                        *)
(*   "SP" U+0020 space        "LF" \n        "CR" \r       "FF" \f         *)
(*   "IDSP" U+3000 ideographic space                                       *)
(*   "DI" 第   "YI" 一   "ER" 二   "ZHANG" 章   "JIE" 节   "HUI" 回        *)
(*   "BU" 部   "JUAN" 卷   "WEN" 文   "BEN" 本                             *)
(***************************************************************************)
EXTENDS Integers, Sequences, FiniteSets, TLC

VARIABLES ext, fail, text, items, nodes, chapters, result, outcome, status

vars == <<ext, fail, text, items, nodes, chapters, result, outcome, status>>

-----------------------------------------------------------------------------
(* Bounds of the model.                                                    *)

MaxSegs == 3

MaxLongSegs == 3

MaxItems == 2

MaxNodes == 3

-----------------------------------------------------------------------------
(* Characters and the str methods the parser uses.                         *)

\* Characters for which str.isspace() holds, i.e. what str.strip() removes
\* and what \s matches.
Whitespace == {"SP", "LF", "CR", "FF", "IDSP"}

\* Line boundaries of str.splitlines().
LineBreaks == {"LF", "CR", "FF"}

\* \d of the heading pattern.
Digits == {"0", "1", "2", "3", "4", "5", "6", "7", "8", "9"}

\* [\d一二三四五六七八九十百千万零两]: the digits and the CJK numerals.
Numerals == Digits \cup {"YI", "ER"}

\* [章节回部卷]
Units == {"ZHANG", "JIE", "HUI", "BU", "JUAN"}

\* re.IGNORECASE: a character is compared through its lower-case form.
Lower(c) ==
  CASE c = "C" -> "c" [] c = "H" -> "h" [] c = "A" -> "a" [] c = "P" -> "p"
    [] c = "T" -> "t" [] c = "E" -> "e" [] c = "R" -> "r" [] c = "S" -> "s"
    [] c = "I" -> "i" [] c = "O" -> "o" [] c = "N" -> "n"
    [] OTHER -> c

\* The words of the Latin alternative of the heading pattern.
HeadingWords ==
  { <<"c", "h", "a", "p", "t", "e", "r">>,
    <<"s", "e", "c", "t", "i", "o", "n">>,
    <<"p", "a", "r", "t">> }

\* s[a..b], empty when b < a.
Slice(s, a, b) == IF b < a THEN <<>> ELSE SubSeq(s, a, b)

\* Index of the first character of s that is not whitespace, Len(s)+1 if none.
FirstNonSpace(s) ==
  IF \A i \in 1..Len(s) : s[i] \in Whitespace
  THEN Len(s) + 1
  ELSE CHOOSE i \in 1..Len(s) :
         s[i] \notin Whitespace /\ \A j \in 1..(i - 1) : s[j] \in Whitespace

\* Index of the last character of s that is not whitespace, 0 if none.
LastNonSpace(s) ==
  IF \A i \in 1..Len(s) : s[i] \in Whitespace
  THEN 0
  ELSE CHOOSE i \in 1..Len(s) :
         s[i] \notin Whitespace /\ \A j \in (i + 1)..Len(s) : s[j] \in Whitespace

\* str.strip()
Strip(s) == Slice(s, FirstNonSpace(s), LastNonSpace(s))

\* The smallest element of a non-empty set of integers.
Min(S) == CHOOSE i \in S : \A j \in S : i <= j

RECURSIVE Sorted(_)
\* The elements of a finite set of integers in increasing order.
Sorted(S) == IF S = {} THEN <<>> ELSE <<Min(S)>> \o Sorted(S \ {Min(S)})

\* str.splitlines(): the lines of s without their line boundaries; "\r\n" is
\* one boundary, and a trailing boundary does not open a last empty line.
SplitLines(s) ==
  LET n == Len(s)
      ends == Sorted({i \in 1..n :
                        /\ s[i] \in LineBreaks
                        /\ ~(s[i] = "CR" /\ i < n /\ s[i + 1] = "LF")})
      m == Len(ends)
      start(k) == IF k = 1 THEN 1 ELSE ends[k - 1] + 1
      stop(k) == IF /\ s[ends[k]] = "LF"
                    /\ ends[k] > start(k)
                    /\ s[ends[k] - 1] = "CR"
                 THEN ends[k] - 2
                 ELSE ends[k] - 1
      last == IF m = 0 THEN 1 ELSE ends[m] + 1
  IN  [k \in 1..m |-> Slice(s, start(k), stop(k))]
        \o (IF last <= n THEN <<Slice(s, last, n)>> ELSE <<>>)

RECURSIVE Join(_, _)
\* sep.join(parts)
Join(sep, parts) ==
  IF Len(parts) = 0 THEN <<>>
  ELSE IF Len(parts) = 1 THEN parts[1]
  ELSE parts[1] \o sep \o Join(sep, Tail(parts))

RECURSIVE Str(_)
\* str(n) for a natural number n
Str(n) ==
  LET d == <<"0", "1", "2", "3", "4", "5", "6", "7", "8", "9">>
  IN  IF n < 10 THEN <<d[n + 1]>> ELSE Str(n \div 10) \o <<d[(n % 10) + 1]>>

\* DocumentParser._clean_text
_clean_text(s) ==
  SelectSeq([i \in 1..Len(s) |-> IF s[i] = "IDSP" THEN "SP" ELSE s[i]],
            LAMBDA c : c # "CR")

-----------------------------------------------------------------------------
(* The heading pattern.                                                    *)

\* The number of characters of s from position p on that belong to set S.
RunLength(s, p, S) ==
  IF p > Len(s) \/ s[p] \notin S THEN 0
  ELSE IF \A i \in p..Len(s) : s[i] \in S THEN Len(s) - p + 1
  ELSE (CHOOSE i \in p..Len(s) :
          s[i] \notin S /\ \A j \in p..(i - 1) : s[j] \in S) - p

\* 第[\d一二...]+[章节回部卷] at position p
CjkHeadingAt(s, p) ==
  /\ p <= Len(s)
  /\ s[p] = "DI"
  /\ LET k == RunLength(s, p + 1, Numerals)
     IN  /\ k >= 1
         /\ p + 1 + k <= Len(s)
         /\ s[p + 1 + k] \in Units

\* (?:chapter|section|part)\s+\d+ at position p, letters of either case
LatinHeadingAt(s, p) ==
  \E w \in HeadingWords :
    /\ p + Len(w) - 1 <= Len(s)
    /\ \A i \in 1..Len(w) : Lower(s[p + i - 1]) = w[i]
    /\ LET k == RunLength(s, p + Len(w), Whitespace)
       IN  /\ k >= 1
           /\ RunLength(s, p + Len(w) + k, Digits) >= 1

\* heading_pattern.match(s): anchored at the start of s, after optional
\* whitespace.  \s* may give characters back, but neither alternative starts
\* with whitespace, so only the full run of leading whitespace can match.
heading_pattern(s) ==
  LET p == RunLength(s, 1, Whitespace) + 1
  IN  CjkHeadingAt(s, p) \/ LatinHeadingAt(s, p)

-----------------------------------------------------------------------------
(* Chapters and the flat-text segmenter.                                   *)

\* dataclass Chapter
Chapter(title, content) == [title |-> title, content |-> content]

\* The default titles parse passes to _split_into_chapters, and those of the
\* EPUB and MOBI paths.
PdfTitle == <<"P", "D", "F", "SP", "ZHANG", "JIE">>

TxtTitle == <<"WEN", "BEN", "ZHANG", "JIE">>

WordTitle == <<"W", "o", "r", "d", "SP", "ZHANG", "JIE">>

EpubTitle == <<"E", "P", "U", "B", "SP", "ZHANG", "JIE">>

MobiTitle == <<"M", "O", "B", "I", "SP", "ZHANG", "JIE">>

\* f"{default_title} {n}"
Numbered(default_title, n) == default_title \o <<"SP">> \o Str(n)

\* chunk_size of _split_into_chapters
chunk_size == 1200

\* The state of the line loop before any line: no chapter, current_title
\* None (written <<>>: `or` treats None and "" alike), empty current_content.
WalkInit == [chapters |-> <<>>, current_title |-> <<>>, current_content |-> <<>>]

\* WalkLine with the flush at a heading taken even when current_content is
\* empty.
WalkLineFlushAlways(w, line, default_title) ==
  LET stripped == Strip(line)
  IN  IF stripped = <<>>
      THEN [w EXCEPT !.current_content = Append(@, <<>>)]
      ELSE IF heading_pattern(stripped)
      THEN [chapters |->
              Append(w.chapters,
                     Chapter(IF w.current_title # <<>>
                             THEN w.current_title
                             ELSE Numbered(default_title, Len(w.chapters) + 1),
                             Strip(Join(<<"LF">>, w.current_content)))),
            current_title |-> stripped,
            current_content |-> <<stripped>>]
      ELSE [w EXCEPT !.current_content = Append(@, stripped)]

\* WalkLine with the heading line left out of the content of its chapter.
WalkLineDropHeading(w, line, default_title) ==
  LET stripped == Strip(line)
  IN  IF stripped = <<>>
      THEN [w EXCEPT !.current_content = Append(@, <<>>)]
      ELSE IF heading_pattern(stripped)
      THEN IF w.current_content # <<>>
           THEN [chapters |->
                   Append(w.chapters,
                          Chapter(IF w.current_title # <<>>
                                  THEN w.current_title
                                  ELSE Numbered(default_title, Len(w.chapters) + 1),
                                  Strip(Join(<<"LF">>, w.current_content)))),
                 current_title |-> stripped,
                 current_content |-> <<>>]
           ELSE [w EXCEPT !.current_title = stripped]
      ELSE [w EXCEPT !.current_content = Append(@, stripped)]

\* One iteration of the line loop of _split_into_chapters.
WalkLine(w, line, default_title) ==
  LET stripped == Strip(line)
  IN  IF stripped = <<>>
      THEN [w EXCEPT !.current_content = Append(@, <<>>)]
      ELSE IF heading_pattern(stripped)
      THEN IF w.current_content # <<>>
           THEN [chapters |->
                   Append(w.chapters,
                          Chapter(IF w.current_title # <<>>
                                  THEN w.current_title
                                  ELSE Numbered(default_title, Len(w.chapters) + 1),
                                  Strip(Join(<<"LF">>, w.current_content)))),
                 current_title |-> stripped,
                 current_content |-> <<stripped>>]
           ELSE [w EXCEPT !.current_title = stripped,
                          !.current_content = <<stripped>>]
      ELSE [w EXCEPT !.current_content = Append(@, stripped)]

RECURSIVE WalkLines(_, _, _, _)
\* The line loop from line i on.
WalkLines(w, lines, i, default_title) ==
  IF i > Len(lines) THEN w
  ELSE WalkLines(WalkLine(w, lines[i], default_title), lines, i + 1, default_title)

\* WalkFlush with the numbered placeholder used for every last chapter that
\* follows another one, whatever current_title is.
WalkFlushNumbered(w, default_title) ==
  IF w.current_content # <<>>
  THEN Append(w.chapters,
              Chapter(IF w.chapters # <<>>
                      THEN Numbered(default_title, Len(w.chapters) + 1)
                      ELSE IF w.current_title # <<>>
                           THEN w.current_title
                           ELSE default_title,
                      Strip(Join(<<"LF">>, w.current_content))))
  ELSE w.chapters

\* The flush after the line loop.
WalkFlush(w, default_title) ==
  IF w.current_content # <<>>
  THEN Append(w.chapters,
              Chapter(IF w.current_title # <<>>
                      THEN w.current_title
                      ELSE IF w.chapters # <<>>
                           THEN Numbered(default_title, Len(w.chapters) + 1)
                           ELSE default_title,
                      Strip(Join(<<"LF">>, w.current_content))))
  ELSE w.chapters

\* The value of `chapters` when _split_into_chapters reaches its test
\* len(chapters) <= 1.
HeadingWalk(cleaned, default_title) ==
  WalkFlush(WalkLines(WalkInit, SplitLines(cleaned), 1, default_title),
            default_title)

\* ChunkStarts without the start of a last, shorter slice.
ChunkStartsWholeOnly(text_length, step) ==
  [k \in 1..(text_length \div step) |-> (k - 1) * step + 1]

\* range(0, text_length, step), as the 1-based first positions of the slices.
ChunkStarts(text_length, step) ==
  [k \in 1..((text_length + step - 1) \div step) |-> (k - 1) * step + 1]

\* cleaned[index : index + chunk_size] for each index of the range.
ChunkSlices(cleaned) ==
  LET starts == ChunkStarts(Len(cleaned), chunk_size)
  IN  [k \in 1..Len(starts) |->
         Slice(cleaned, starts[k],
               IF starts[k] + chunk_size - 1 <= Len(cleaned)
               THEN starts[k] + chunk_size - 1
               ELSE Len(cleaned))]

\* ChunkFallback without the case of a text of at most chunk_size characters.
ChunkFallbackLoopOnly(cleaned, default_title) ==
  [k \in 1..Len(ChunkSlices(cleaned)) |->
     Chapter(Numbered(default_title, k), Strip(ChunkSlices(cleaned)[k]))]

\* The fixed-size chunking of _split_into_chapters.
ChunkFallback(cleaned, default_title) ==
  IF Len(cleaned) <= chunk_size
  THEN <<Chapter(default_title, Strip(cleaned))>>
  ELSE LET slices == ChunkSlices(cleaned)
       IN  [k \in 1..Len(slices) |->
              Chapter(Numbered(default_title, k), Strip(slices[k]))]

\* Whether _split_into_chapters keeps the chapters of the line loop.
WalkKept(walked) == ~(Len(walked) <= 1)

\* DocumentParser._split_into_chapters
_split_into_chapters(t, default_title) ==
  LET cleaned == _clean_text(t)
      walked == HeadingWalk(cleaned, default_title)
  IN  IF WalkKept(walked) THEN walked ELSE ChunkFallback(cleaned, default_title)

-----------------------------------------------------------------------------
(* The EPUB and MOBI extractors.                                           *)

\* The largest element of a non-empty set of integers.
Max(S) == CHOOSE i \in S : \A j \in S : j <= i

\* os.path.basename(name): what follows the last "/".
Basename(name) ==
  LET seps == {i \in 1..Len(name) : name[i] = "/"}
  IN  IF seps = {} THEN name ELSE Slice(name, Max(seps) + 1, Len(name))

\* os.path.splitext(base)[0] for a name without "/": cut at the last "." unless
\* only "." characters precede it.
SplitextRoot(base) ==
  LET dots == {i \in 1..Len(base) : base[i] = "."}
  IN  IF dots = {} THEN base
      ELSE IF \E i \in 1..(Max(dots) - 1) : base[i] # "."
      THEN Slice(base, 1, Max(dots) - 1)
      ELSE base

\* DocumentParser._guess_title
_guess_title(name) ==
  LET title == SplitextRoot(Basename(name))
  IN  IF title # <<>> THEN title ELSE EpubTitle

RECURSIVE EpubLoopKeepAll(_, _, _)
\* EpubLoop without the test of the item's text.
EpubLoopKeepAll(its, i, acc) ==
  IF i > Len(its) THEN acc
  ELSE EpubLoopKeepAll(its, i + 1,
                       Append(acc, Chapter(_guess_title(its[i].name),
                                           _clean_text(its[i].text))))

RECURSIVE EpubLoop(_, _, _)
\* An EPUB document item is [name |-> item.get_name(), text |-> the text
\* BeautifulSoup(item.get_body_content()).get_text("\n") extracts].
\* The item loop of _parse_epub from item i on, acc the chapters so far.
EpubLoop(its, i, acc) ==
  IF i > Len(its) THEN acc
  ELSE LET title == _guess_title(its[i].name)
           t == _clean_text(its[i].text)
       IN  EpubLoop(its, i + 1,
                    IF Strip(t) # <<>> THEN Append(acc, Chapter(title, t)) ELSE acc)

\* The names BeautifulSoup.find_all is asked for in _parse_mobi.
WalkedNames == {"h1", "h2", "h3", "h4", "h5", "h6", "p", "div"}

\* The names that open a chapter in _parse_mobi.
BoundaryNames == {"h1", "h2", "h3"}

\* The parsed raw HTML of a MOBI is a sequence of sibling elements
\* [name |-> tag, text |-> its text], an element with text "" having no text
\* node.  soup.find_all([...]): the elements with a walked name, in order.
FindAll(html) == SelectSeq(html, LAMBDA e : e.name \in WalkedNames)

\* element.get_text(" ") of an element with at most one text node.
ElementText(e) == e.text

\* soup.get_text("\n"): the text nodes of the document joined by "\n".
SoupText(html) ==
  LET texted == SelectSeq(html, LAMBDA e : e.text # <<>>)
  IN  Join(<<"LF">>, [k \in 1..Len(texted) |-> texted[k].text])

\* current_title.strip() or "MOBI 章节"
MobiChapterTitle(current_title) ==
  IF Strip(current_title) # <<>> THEN Strip(current_title) ELSE MobiTitle

\* One iteration of the element loop of _parse_mobi.
MobiElement(w, e) ==
  IF e.name \in BoundaryNames
  THEN [chapters |->
          IF w.current_content # <<>>
          THEN Append(w.chapters,
                      Chapter(MobiChapterTitle(w.current_title),
                              Strip(Join(<<"LF">>, w.current_content))))
          ELSE w.chapters,
        current_title |-> _clean_text(ElementText(e)),
        current_content |-> IF w.current_content # <<>> THEN <<>> ELSE w.current_content]
  ELSE [w EXCEPT !.current_content = Append(@, _clean_text(ElementText(e)))]

RECURSIVE MobiLoop(_, _, _)
\* The element loop of _parse_mobi from element i on.
MobiLoop(w, elements, i) ==
  IF i > Len(elements) THEN w
  ELSE MobiLoop(MobiElement(w, elements[i]), elements, i + 1)

\* The value of `chapters` when _parse_mobi reaches its test `not chapters`.
MobiWalk(html) ==
  LET w == MobiLoop([chapters |-> <<>>, current_title |-> MobiTitle,
                     current_content |-> <<>>], FindAll(html), 1)
  IN  IF w.current_content # <<>>
      THEN Append(w.chapters,
                  Chapter(MobiChapterTitle(w.current_title),
                          Strip(Join(<<"LF">>, w.current_content))))
      ELSE w.chapters

\* Whether _parse_mobi falls back to _split_into_chapters.
MobiFallsBack(walked) == walked = <<>>

\* What _parse_mobi returns once the raw HTML is parsed.
MobiChapters(html) ==
  IF MobiFallsBack(MobiWalk(html))
  THEN _split_into_chapters(SoupText(html), MobiTitle)
  ELSE MobiWalk(html)

-----------------------------------------------------------------------------
(* The documents the model parses.                                         *)

\* "第一章"
HeadingOne == <<"DI", "YI", "ZHANG">>

\* "Part 2"
HeadingTwo == <<"P", "a", "r", "t", "SP", "2">>

\* "\r\nx\f": a body line after a CRLF line end, closed by a form feed
BodyLine == <<"CR", "LF", "x", "FF">>

\* n characters "x"
Fill(n) == [i \in 1..n |-> "x"]

RECURSIVE Concats(_, _)
\* The concatenations of at most n members of segs.
Concats(segs, n) ==
  IF n = 0 THEN {<<>>}
  ELSE LET shorter == Concats(segs, n - 1)
       IN  shorter \cup {p \o g : p \in shorter, g \in segs}

\* Short texts: headings, a heading with a body line, body lines and
\* characters, line boundaries and whitespace.
ShortTexts ==
  Concats({HeadingOne, HeadingTwo, HeadingOne \o BodyLine, BodyLine, <<"x">>,
           <<"LF">>, <<"IDSP">>}, MaxSegs)

\* Texts of chunk_size characters and more.
LongTexts ==
  Concats({Fill(chunk_size), <<"x">>, <<"SP">>, <<"LF">>}, MaxLongSegs)

\* What the flat-text extractors can return.
FlatTexts == ShortTexts \cup LongTexts

\* Item names "", "a.x", " .x", ".x", "d/" and "d/b.x".
EpubNames ==
  { <<>>, <<"a", ".", "x">>, <<"SP", ".", "x">>, <<".", "x">>, <<"d", "/">>,
    <<"d", "/", "b", ".", "x">> }

\* Texts of an EPUB item or of a MOBI element.
BodyTexts == { <<>>, <<"IDSP">>, <<"x">>, HeadingOne }

RECURSIVE SeqsUpTo(_, _)
\* The sequences of at most n members of S.
SeqsUpTo(S, n) ==
  IF n = 0 THEN {<<>>}
  ELSE LET shorter == SeqsUpTo(S, n - 1)
       IN  shorter \cup {Append(q, e) : q \in shorter, e \in S}

EpubBooks == SeqsUpTo([name : EpubNames, text : BodyTexts], MaxItems)

MobiBooks == SeqsUpTo([name : {"h2", "p", "span"}, text : BodyTexts], MaxNodes)

-----------------------------------------------------------------------------
(* parse, as upload calls it on the uploaded file.  Each action is one     *)
(* upload: the call of parser.parse for a file of one extension, and the   *)
(* status upload answers with.  outcome "none" and status 0 stand for the  *)
(* time before the upload.                                                 *)

\* The response status of upload for an outcome of parser.parse.
UploadStatus(o) ==
  IF o = "DocumentParserError" THEN 400
  ELSE IF o = "Exception" THEN 500
  ELSE 200

\* The default_title parse passes to _split_into_chapters for an extension.
default_title_of(e) ==
  CASE e = ".pdf" -> PdfTitle
    [] e = ".txt" -> TxtTitle
    [] e = ".doc" -> WordTitle
    [] e = ".docx" -> WordTitle

\* parse leaves with an exception: nothing is returned.
Raises(e, f, kind) ==
  /\ ext' = e
  /\ fail' = f
  /\ text' = <<>>
  /\ items' = <<>>
  /\ nodes' = <<>>
  /\ chapters' = <<>>
  /\ result' = <<>>
  /\ outcome' = kind
  /\ status' = UploadStatus(kind)

\* parse of a flat-text format returns _split_into_chapters of the text t.
ReturnsSplit(e, f, t) ==
  /\ ext' = e
  /\ fail' = f
  /\ text' = t
  /\ items' = <<>>
  /\ nodes' = <<>>
  /\ chapters' = HeadingWalk(_clean_text(t), default_title_of(e))
  /\ result' = _split_into_chapters(t, default_title_of(e))
  /\ outcome' = "returned"
  /\ status' = UploadStatus("returned")

\* parse of a .pdf file: extract_text raises or returns t.
ParsePdf ==
  /\ outcome = "none"
  /\ \/ Raises(".pdf", "extract_text", "DocumentParserError")
     \/ \E t \in FlatTexts : ReturnsSplit(".pdf", "none", t)

\* parse of a .txt file: open/read raises or returns t.
ParseTxt ==
  /\ outcome = "none"
  /\ \/ Raises(".txt", "open", "DocumentParserError")
     \/ \E t \in FlatTexts : ReturnsSplit(".txt", "none", t)

\* parse of a .docx file: Document() raises inside the try, the paragraphs
\* are read outside of it; t is the joined paragraph text.
ParseDocx ==
  /\ outcome = "none"
  /\ \/ Raises(".docx", "Document", "DocumentParserError")
     \/ Raises(".docx", "paragraphs", "Exception")
     \/ \E t \in FlatTexts : ReturnsSplit(".docx", "none", t)

\* parse of a .doc file: textract is missing, textract.process raises, or the
\* bytes decode to t as UTF-8 or, after UnicodeDecodeError, as GB18030.
ParseDoc ==
  /\ outcome = "none"
  /\ \/ Raises(".doc", "textract_missing", "DocumentParserError")
     \/ Raises(".doc", "process", "DocumentParserError")
     \/ \E t \in FlatTexts, f \in {"none", "decode_utf8"} : ReturnsSplit(".doc", f, t)

\* parse of a .epub file: read_epub raises inside the try; the items are
\* enumerated and read outside of it.  Without text in any item the
\* empty-result error is raised.
ParseEpub ==
  /\ outcome = "none"
  /\ \/ Raises(".epub", "read_epub", "DocumentParserError")
     \/ Raises(".epub", "item", "Exception")
     \/ \E its \in EpubBooks :
          /\ ext' = ".epub"
          /\ fail' = "none"
          /\ text' = <<>>
          /\ items' = its
          /\ nodes' = <<>>
          /\ chapters' = EpubLoop(its, 1, <<>>)
          /\ IF EpubLoop(its, 1, <<>>) = <<>>
             THEN /\ result' = <<>>
                  /\ outcome' = "DocumentParserError"
                  /\ status' = UploadStatus("DocumentParserError")
             ELSE /\ result' = EpubLoop(its, 1, <<>>)
                  /\ outcome' = "returned"
                  /\ status' = UploadStatus("returned")

\* parse of a .mobi file: Mobi(), parse, get_raw_html and the decoding raise
\* inside the try; BeautifulSoup parses the raw HTML outside of it.
ParseMobi ==
  /\ outcome = "none"
  /\ \/ Raises(".mobi", "Mobi", "DocumentParserError")
     \/ Raises(".mobi", "BeautifulSoup", "Exception")
     \/ \E html \in MobiBooks :
          /\ ext' = ".mobi"
          /\ fail' = "none"
          /\ text' = SoupText(html)
          /\ items' = <<>>
          /\ nodes' = html
          /\ chapters' = MobiWalk(html)
          /\ result' = MobiChapters(html)
          /\ outcome' = "returned"
          /\ status' = UploadStatus("returned")

\* parse of a file with any other extension; upload answers such a file
\* with status 400 as well.
ParseUnsupported ==
  /\ outcome = "none"
  /\ \E e \in {".xyz", ""} :
       /\ e \notin {".pdf", ".txt", ".epub", ".mobi", ".doc", ".docx"}
       /\ Raises(e, "none", "DocumentParserError")

\* No file has been parsed yet.
Init ==
  /\ ext = ""
  /\ fail = "none"
  /\ text = <<>>
  /\ items = <<>>
  /\ nodes = <<>>
  /\ chapters = <<>>
  /\ result = <<>>
  /\ outcome = "none"
  /\ status = 0

Next ==
  \/ ParsePdf
  \/ ParseTxt
  \/ ParseDocx
  \/ ParseDoc
  \/ ParseEpub
  \/ ParseMobi
  \/ ParseUnsupported

Spec == Init /\ [][Next]_vars

-----------------------------------------------------------------------------
(* Properties.                                                             *)

\* parse has returned a chapter list.
Returned == outcome = "returned"

\* The extensions whose text goes through _split_into_chapters.
FlatExts == {".pdf", ".txt", ".doc", ".docx"}

\* parse has returned the chapters of a flat-text format.
ReturnedFlat == Returned /\ ext \in FlatExts

\* The trimmed lines of a normalized text, blank ones included.
StrippedLines(cleaned) ==
  LET lines == SplitLines(cleaned)
  IN  [k \in 1..Len(lines) |-> Strip(lines[k])]

\* The positions of the lines of a normalized text that are headings.
HeadingPositions(cleaned) ==
  LET lines == StrippedLines(cleaned)
  IN  {k \in 1..Len(lines) : heading_pattern(lines[k])}

RECURSIVE Flatten(_)
\* The concatenation of a sequence of sequences.
Flatten(ss) == IF ss = <<>> THEN <<>> ELSE Head(ss) \o Flatten(Tail(ss))

\* The items of an EPUB whose normalized text is not empty after trimming.
KeptItems(its) == SelectSeq(its, LAMBDA it : Strip(_clean_text(it.text)) # <<>>)

\* C1: whenever parse returns, the returned chapter list has at least one
\* chapter, for every format and every extracted text: an EPUB whose items
\* are all empty raises instead of returning, and a MOBI whose element walk
\* appended no chapter returns what _split_into_chapters gives for its text.
C1_ReturnedNonEmpty ==
  /\ Returned => Len(result) >= 1
  /\ (ext = ".epub" /\ fail = "none" /\ KeptItems(items) = <<>>) =>
       outcome = "DocumentParserError" /\ result = <<>>
  /\ (Returned /\ ext = ".mobi" /\ chapters = <<>>) =>
       result = _split_into_chapters(text, MobiTitle)

\* A MOBI whose element walk appended nothing and whose text is empty was
\* parsed and parse returned.
C1_Witness ==
  /\ Returned
  /\ ext = ".mobi"
  /\ chapters = <<>>
  /\ text = <<>>
  /\ Len(result) = 1

\* C2: every chapter parse returns has a title that is not empty after
\* trimming, on every path.
C2_TitlesNotBlank ==
  Returned => \A k \in 1..Len(result) : Strip(result[k].title) # <<>>

\* ceil(n / d) for positive d
CeilDiv(n, d) == IF n % d = 0 THEN n \div d ELSE (n \div d) + 1

\* The k-th consecutive slice of 1200 characters of s.
NthSlice(s, k) ==
  Slice(s, 1200 * (k - 1) + 1, IF 1200 * k <= Len(s) THEN 1200 * k ELSE Len(s))

\* C3: a flat text without heading line and of normalized length L gives one
\* chapter titled with the default title and holding the trimmed text when
\* L <= 1200, and otherwise ceil(L/1200) chapters, the k-th titled
\* "<default> k" and holding the trimmed k-th slice of 1200 characters; the
\* slices concatenate back to the text and none is longer than 1200.
C3_ChunkingWithoutHeading ==
  (ReturnedFlat /\ HeadingPositions(_clean_text(text)) = {}) =>
    LET cleaned == _clean_text(text)
        L == Len(cleaned)
        n == CeilDiv(L, 1200)
        slices == ChunkSlices(cleaned)
    IN  IF L <= 1200
        THEN result = <<Chapter(default_title_of(ext), Strip(cleaned))>>
        ELSE /\ Len(result) = n
             /\ \A k \in 1..n :
                  /\ result[k].title = Numbered(default_title_of(ext), k)
                  /\ result[k].content = Strip(NthSlice(cleaned, k))
                  /\ Len(result[k].content) <= 1200
             /\ Len(slices) = n
             /\ \A k \in 1..n : Len(slices[k]) <= 1200
             /\ Flatten(slices) = cleaned

\* A text without heading and longer than 2400 characters was cut in three
\* chunks, one of which lost whitespace to trimming.
C3_Witness ==
  /\ ReturnedFlat
  /\ HeadingPositions(_clean_text(text)) = {}
  /\ Len(_clean_text(text)) > 2400
  /\ Len(result) = 3
  /\ \E k \in 1..3 : Len(result[k].content) < Len(NthSlice(_clean_text(text), k))

\* The normalized text has exactly two heading lines, and a line of body
\* text between them.
TwoHeadingsAroundBody(cleaned) ==
  /\ Cardinality(HeadingPositions(cleaned)) = 2
  /\ \E k \in (Min(HeadingPositions(cleaned)) + 1)..(Max(HeadingPositions(cleaned)) - 1) :
       StrippedLines(cleaned)[k] # <<>>

\* Chapter c is titled by the heading line h and holds h as the first line of
\* its content.
TitledByHeading(c, h) ==
  /\ c.title = h
  /\ SplitLines(c.content) # <<>>
  /\ SplitLines(c.content)[1] = h

\* C4 as stated: two heading lines separated by body text give exactly two
\* chapters, titled by the two heading lines in order and each holding its
\* heading line, whatever precedes the first heading.
C4_ExactlyTwoChapters ==
  (ReturnedFlat /\ TwoHeadingsAroundBody(_clean_text(text))) =>
    LET cleaned == _clean_text(text)
        first == Min(HeadingPositions(cleaned))
        second == Max(HeadingPositions(cleaned))
    IN  /\ Len(result) = 2
        /\ TitledByHeading(result[1], StrippedLines(cleaned)[first])
        /\ TitledByHeading(result[2], StrippedLines(cleaned)[second])

\* C4 amended: two heading lines separated by body text give exactly two
\* chapters when the first heading line is the first line of the text; when
\* any line, blank or not, precedes it, a chapter titled "<default> 1" holding
\* the preceding lines comes first and three chapters are returned.  The last
\* two chapters are titled by the two heading lines in order and each holds
\* its heading line.
C4_TwoChaptersAfterPreamble ==
  (ReturnedFlat /\ TwoHeadingsAroundBody(_clean_text(text))) =>
    LET cleaned == _clean_text(text)
        first == Min(HeadingPositions(cleaned))
        second == Max(HeadingPositions(cleaned))
        n == Len(result)
    IN  /\ n = IF first = 1 THEN 2 ELSE 3
        /\ TitledByHeading(result[n - 1], StrippedLines(cleaned)[first])
        /\ TitledByHeading(result[n], StrippedLines(cleaned)[second])
        /\ first > 1 =>
             /\ result[1].title = Numbered(default_title_of(ext), 1)
             /\ result[1].content =
                  Strip(Join(<<"LF">>, SubSeq(StrippedLines(cleaned), 1, first - 1)))

\* A text that starts with a heading line, followed by body text and a second
\* heading line, was parsed into two chapters.
C4_Witness ==
  /\ ReturnedFlat
  /\ TwoHeadingsAroundBody(_clean_text(text))
  /\ Min(HeadingPositions(_clean_text(text))) = 1
  /\ Len(result) = 2

\* C5: a MOBI whose HTML has no h1, h2 or h3 element gives exactly the
\* chapters _split_into_chapters gives for the extracted plain text, whether
\* or not the HTML has h4-h6, p or div elements.
C5_MobiWithoutHeadingElements ==
  (Returned /\ ext = ".mobi" /\ \A k \in 1..Len(nodes) : nodes[k].name \notin BoundaryNames)
    => result = _split_into_chapters(SoupText(nodes), MobiTitle)

\* C6: an EPUB whose items could be read gives one chapter per item whose
\* normalized text is not empty after trimming, in the order of the items,
\* and the other items are dropped; when no item has text, parse raises
\* DocumentParserError and returns nothing.
C6_EpubKeepsNonEmptyItems ==
  (ext = ".epub" /\ fail = "none") =>
    IF KeptItems(items) = <<>>
    THEN outcome = "DocumentParserError" /\ result = <<>>
    ELSE /\ Returned
         /\ Len(result) = Len(KeptItems(items))
         /\ \A k \in 1..Len(result) :
              /\ result[k].content = _clean_text(KeptItems(items)[k].text)
              /\ result[k].title = _guess_title(KeptItems(items)[k].name)

\* An EPUB of two items, the first without text, was parsed into the one
\* chapter of the second.
C6_Witness ==
  /\ Returned
  /\ ext = ".epub"
  /\ Len(items) = 2
  /\ Strip(_clean_text(items[1].text)) = <<>>
  /\ Len(result) = 1
  /\ result[1].content = items[2].text

\* C7: every failure of parse is a DocumentParserError, in whichever step the
\* library raises, and no chapter list comes with it.
C7_FailuresAreClassified ==
  outcome \notin {"none", "returned"} =>
    outcome = "DocumentParserError" /\ result = <<>>

\* C8: the heading walk of _split_into_chapters yields at most one chapter,
\* and so the chunking fallback is applied, only when no line is a heading.
C8_FallbackOnlyWithoutHeading ==
  (ReturnedFlat /\ ~WalkKept(chapters)) => HeadingPositions(_clean_text(text)) = {}

\* The lines of the contents of the chapters cs that are not blank, in order.
ContentLines(cs) ==
  SelectSeq(Flatten([k \in 1..Len(cs) |-> SplitLines(cs[k].content)]),
            LAMBDA l : l # <<>>)

PlaceholderAfterHeading(w) ==
  \E j \in 1..Len(w), k \in 1..Len(w) :
    /\ j < k
    /\ heading_pattern(w[j].title)
    /\ ~heading_pattern(w[k].title)

\* C10 as stated: placeholder titles are numbered against all chapters
\* flushed so far, and the heading walk can flush a chapter with a placeholder
\* title after a chapter titled by a heading, so that the placeholder index
\* is above 1: when parse is about to be called, some text it can be called
\* with has such a walk.
C10_PlaceholderCanFollowHeading ==
  outcome = "none" =>
    \E t \in FlatTexts, e \in FlatExts :
      PlaceholderAfterHeading(HeadingWalk(_clean_text(t), default_title_of(e)))

\* C10 amended: placeholder titles are numbered len(chapters)+1, and the
\* title of the walk is never unset once a heading has set it, so only the
\* first chapter of a walk can have a placeholder title: the placeholder is
\* "<default> 1" when a heading follows it and the plain default title when
\* the text has no heading, and no placeholder follows a heading-titled
\* chapter.
C10_PlaceholderOnlyFirst ==
  ReturnedFlat =>
    /\ ~PlaceholderAfterHeading(chapters)
    /\ \A k \in 1..Len(chapters) :
         ~heading_pattern(chapters[k].title) =>
           /\ k = 1
           /\ chapters[k].title =
                IF HeadingPositions(_clean_text(text)) = {}
                THEN default_title_of(ext)
                ELSE Numbered(default_title_of(ext), 1)

\* A text with lines before its first heading and two headings was walked:
\* the first chapter has the placeholder title and two heading-titled
\* chapters follow.
C10_Witness ==
  /\ ReturnedFlat
  /\ Len(chapters) = 3
  /\ ~heading_pattern(chapters[1].title)
  /\ heading_pattern(chapters[2].title)
  /\ heading_pattern(chapters[3].title)

====
